---- MODULE Spec2Model ----
(***************************************************************************)
(* ImperioCasino game settlement engine: blackjack, roulette and the slot  *)
(* machine working on one account's coin balance, the blackjack_game_state *)
(* rows of that account and its transactions table.                        *)
(*                                                                         *)
(* Every request runs in its own SQLAlchemy session.  A session keeps the  *)
(* objects it loaded, writes the changed columns at commit, and expires    *)
(* every object at commit so that the next attribute access reloads it.    *)
(* SELECT ... FOR UPDATE on the users row holds a row lock until the       *)
(* session's next commit or rollback (PostgreSQL, READ COMMITTED).         *)
(***************************************************************************)
EXTENDS Integers, Sequences, FiniteSets, TLC

\* ------------------------------------------------------------------ bounds
InitCoins == 2
MaxWager == 1
TopLen == 3
MaxGames == 2
MaxLedger == 2
MaxCalls == 3
NumProcs == 2
MaxHand == 4
MaxEntries == 4

\* ------------------------------------------------------- program constants
DeckCount == 6
SuitCount == 4
TenNames == 4
SlotStake == 1
DealerStandsAt == 17
BlackjackLimit == 21
AceHigh == 11
AceStep == 10

None == -1

Procs == 1..NumProcs

\* ------------------------------------------------------------ cards, shoe
\* A card is modelled by its 'value'; the only card with value 11 is the Ace.
CardValues == {5, 10, 11}

Count(seq, v) == Cardinality({i \in 1..Len(seq) : seq[i] = v})

RECURSIVE SumSeq(_)
SumSeq(seq) == IF seq = <<>> THEN 0 ELSE Head(seq) + SumSeq(Tail(seq))

\* deck: 4 suits x 13 names; 10, Jack, Queen, King all have value 10
Copies(v) == IF v = 10 THEN SuitCount * TenNames * DeckCount ELSE SuitCount * DeckCount

RankOrder == <<2, 3, 4, 6, 7, 8, 9, 5, 11, 10>>

Pop(seq) == SubSeq(seq, 1, Len(seq) - 1)
Last(seq) == seq[Len(seq)]

Tops == [1..TopLen -> CardValues]

\* A deck is a list of cards whose last element is the next card drawn.  It is
\* kept as the runs <<value, length>> of equal neighbours of that list.
Push(d, card) ==
    IF d # <<>> /\ Last(d)[1] = card
    THEN [d EXCEPT ![Len(d)][2] = @ + 1]
    ELSE Append(d, <<card, 1>>)

RECURSIVE PushAll(_, _)
PushAll(d, cards) == IF cards = <<>> THEN d ELSE PushAll(Push(d, Head(cards)), Tail(cards))

\* A permutation of deck * 6 as random.sample(deck * 6, 312) returns it: the
\* next TopLen cards are 'top'; the cards under them are the rest of the six
\* decks, the tens first.
FreshShoe(top) ==
    PushAll([k \in 1..Len(RankOrder) |->
                <<RankOrder[k], Copies(RankOrder[k]) - Count(top, RankOrder[k])>>], top)

RECURSIVE DeckLen(_)
DeckLen(d) == IF d = <<>> THEN 0 ELSE Head(d)[2] + DeckLen(Tail(d))

\* deck.pop(): the card returned and the deck left
TopCard(d) == Last(d)[1]
PopCard(d) == IF Last(d)[2] = 1 THEN Pop(d) ELSE [d EXCEPT ![Len(d)][2] = @ - 1]

ShoeOf == [t \in Tops |-> FreshShoe(t)]

\* random's generator: rng is the top of the shoe the next shuffle returns
shuffle_deck(rng) == ShoeOf[rng]
NextRandom(rng) == Tail(rng) \o <<Head(rng)>>

RECURSIVE LowerAces(_, _)
LowerAces(value, aces) ==
    IF value > BlackjackLimit /\ aces > 0 THEN LowerAces(value - AceStep, aces - 1) ELSE value

\* variant: no Ace is lowered
calculate_hand_value_hard(hand) == SumSeq(hand)

\* variant: one Ace at most is lowered
calculate_hand_value_once(hand) ==
    LowerAces(SumSeq(hand), IF Count(hand, AceHigh) > 0 THEN 1 ELSE 0)

calculate_hand_value(hand) == LowerAces(SumSeq(hand), Count(hand, AceHigh))

\* variant: equal values lose
compare_hands_notie(player_value, dealer_value) ==
    IF player_value > BlackjackLimit THEN "lose"
    ELSE IF dealer_value > BlackjackLimit THEN "win"
    ELSE IF player_value > dealer_value THEN "win"
    ELSE "lose"

compare_hands(player_value, dealer_value) ==
    IF player_value > BlackjackLimit THEN "lose"
    ELSE IF dealer_value > BlackjackLimit THEN "win"
    ELSE IF player_value > dealer_value THEN "win"
    ELSE IF player_value = dealer_value THEN "tie"
    ELSE "lose"

\* ------------------------------------------------- blackjack_game_state row
NoMessage == <<>>

BlackjackGameState(shoe, player_coins, wager) ==
    [deck |-> shoe, dealer_hand |-> <<>>, player_hand |-> <<>>,
     player_second_hand |-> <<>>, player_coins |-> player_coins,
     current_wager |-> wager, game_over |-> FALSE, message |-> NoMessage,
     player_stood |-> FALSE, double_down |-> FALSE, split |-> FALSE,
     current_hand |-> "first", dealer_value |-> None]

\* hand.append(game_state.deck.pop())
Draw(g, hand) == [g EXCEPT ![hand] = Append(@, TopCard(g.deck)), !.deck = PopCard(g.deck)]

\* variant: two cards to the player, then two to the dealer
Deal_pairs(g) == Draw(Draw(Draw(Draw(g, "player_hand"), "player_hand"), "dealer_hand"), "dealer_hand")

Deal(g) == Draw(Draw(Draw(Draw(g, "player_hand"), "dealer_hand"), "player_hand"), "dealer_hand")

\* variant: the dealer draws one card at most
dealer_turn_once(g) ==
    IF calculate_hand_value(g.dealer_hand) < DealerStandsAt THEN Draw(g, "dealer_hand") ELSE g

RECURSIVE dealer_turn(_)
dealer_turn(g) ==
    IF calculate_hand_value(g.dealer_hand) < DealerStandsAt
    THEN dealer_turn(Draw(g, "dealer_hand"))
    ELSE g

Credit(outcome, wager) ==
    IF outcome = "win" THEN wager * 2 ELSE IF outcome = "tie" THEN wager ELSE 0

OutcomeMessage(outcome) ==
    IF outcome = "win" THEN <<"Ganaste!">>
    ELSE IF outcome = "tie" THEN <<"It's a tie.">>
    ELSE <<"Perdiste.">>

\* variant: a split game credits its first hand only
determine_winner_first(g, u) ==
    LET dealer_value == calculate_hand_value(g.dealer_hand)
        o1 == compare_hands(calculate_hand_value(g.player_hand), dealer_value)
        o2 == compare_hands(calculate_hand_value(g.player_second_hand), dealer_value)
    IN  IF g.split
        THEN [g |-> [g EXCEPT !.dealer_value = dealer_value],
              u |-> u + Credit(o1, g.current_wager),
              after |-> <<"First hand: ", o1, ", Second hand: ", o2>>,
              settle |-> TRUE]
        ELSE [g |-> [g EXCEPT !.dealer_value = dealer_value, !.message = OutcomeMessage(o1)],
              u |-> u + Credit(o1, g.current_wager),
              after |-> NoMessage,
              settle |-> TRUE]

\* determine_winner up to its update_user_coins: g and u are the session's
\* game_state and user.coins, 'after' is the message it assigns after that
\* commit (split games only).
determine_winner(g, u) ==
    LET dealer_value == calculate_hand_value(g.dealer_hand)
        o1 == compare_hands(calculate_hand_value(g.player_hand), dealer_value)
        o2 == compare_hands(calculate_hand_value(g.player_second_hand), dealer_value)
    IN  IF g.split
        THEN [g |-> [g EXCEPT !.dealer_value = dealer_value],
              u |-> u + Credit(o1, g.current_wager) + Credit(o2, g.current_wager),
              after |-> <<"First hand: ", o1, ", Second hand: ", o2>>,
              settle |-> TRUE]
        ELSE [g |-> [g EXCEPT !.dealer_value = dealer_value, !.message = OutcomeMessage(o1)],
              u |-> u + Credit(o1, g.current_wager),
              after |-> NoMessage,
              settle |-> TRUE]

NoSettle(g, u) == [g |-> g, u |-> u, after |-> NoMessage, settle |-> FALSE]

CurrentHandField(g) ==
    IF g.split /\ g.current_hand = "second" THEN "player_second_hand" ELSE "player_hand"

\* variant: a bust ends the game without the dealer's turn
player_hit_nodealer(g, u) ==
    LET h == Draw(g, CurrentHandField(g))
        player_value == calculate_hand_value(h[CurrentHandField(g)])
    IN  IF player_value > BlackjackLimit
        THEN IF h.split /\ h.current_hand = "first"
             THEN NoSettle([h EXCEPT !.current_hand = "second", !.player_stood = FALSE], u)
             ELSE determine_winner([h EXCEPT !.game_over = TRUE], u)
        ELSE IF player_value = BlackjackLimit
        THEN determine_winner(dealer_turn([h EXCEPT !.player_stood = TRUE, !.game_over = TRUE]), u)
        ELSE IF h.split /\ h.current_hand = "first"
        THEN NoSettle([h EXCEPT !.current_hand = "second", !.player_stood = FALSE], u)
        ELSE NoSettle(h, u)

player_hit(g, u) ==
    LET h == Draw(g, CurrentHandField(g))
        player_value == calculate_hand_value(h[CurrentHandField(g)])
    IN  IF player_value > BlackjackLimit
        THEN IF h.split /\ h.current_hand = "first"
             THEN NoSettle([h EXCEPT !.current_hand = "second", !.player_stood = FALSE], u)
             ELSE determine_winner(dealer_turn([h EXCEPT !.game_over = TRUE]), u)
        ELSE IF player_value = BlackjackLimit
        THEN determine_winner(dealer_turn([h EXCEPT !.player_stood = TRUE, !.game_over = TRUE]), u)
        ELSE IF h.split /\ h.current_hand = "first"
        THEN NoSettle([h EXCEPT !.current_hand = "second", !.player_stood = FALSE], u)
        ELSE NoSettle(h, u)

\* variant: a stand on the first hand of a split game settles the game
player_stand_settles(g, u) == determine_winner(dealer_turn(g), u)

\* variant: the dealer plays when the first hand of a split game stands
player_stand_dealer(g, u) ==
    IF g.split /\ g.current_hand = "first"
    THEN NoSettle(dealer_turn([g EXCEPT !.current_hand = "second", !.player_stood = FALSE]), u)
    ELSE determine_winner(dealer_turn(g), u)

player_stand(g, u) ==
    IF g.split /\ g.current_hand = "first"
    THEN NoSettle([g EXCEPT !.current_hand = "second", !.player_stood = FALSE], u)
    ELSE determine_winner(dealer_turn(g), u)

\* the two rejections of player_double_down, "" when it is accepted
\* variant: a split game may double down
double_down_rejected_split(g, u) ==
    IF Len(g.player_hand) > 2 \/ g.double_down \/ g.player_stood
    THEN "Cannot double down at this stage"
    ELSE IF u < g.current_wager THEN "Insufficient coins to double down"
    ELSE ""

double_down_rejected(g, u) ==
    IF Len(g.player_hand) > 2 \/ g.double_down \/ g.split \/ g.player_stood
    THEN "Cannot double down at this stage"
    ELSE IF u < g.current_wager THEN "Insufficient coins to double down"
    ELSE ""

\* variant: the wager is not doubled
player_double_down_single(g, u) ==
    LET h == Draw([g EXCEPT !.player_coins = u, !.double_down = TRUE], "player_hand")
    IN  IF calculate_hand_value(h.player_hand) > BlackjackLimit
        THEN NoSettle([h EXCEPT !.message = <<"Bust! You exceeded 21.">>, !.game_over = TRUE], u)
        ELSE determine_winner(dealer_turn([h EXCEPT !.player_stood = TRUE]), u)

\* player_double_down after its update_user_coins
player_double_down(g, u) ==
    LET h == Draw([g EXCEPT !.current_wager = @ * 2, !.player_coins = u, !.double_down = TRUE],
                  "player_hand")
    IN  IF calculate_hand_value(h.player_hand) > BlackjackLimit
        THEN NoSettle([h EXCEPT !.message = <<"Bust! You exceeded 21.">>, !.game_over = TRUE], u)
        ELSE determine_winner(dealer_turn([h EXCEPT !.player_stood = TRUE]), u)

\* variant: a split is not refused for lack of coins
split_rejected_nofunds(g, u) ==
    IF Len(g.player_hand) # 2
    THEN "Cannot split: Hand does not contain exactly two cards"
    ELSE IF g.player_hand[1] # g.player_hand[2]
    THEN "Cannot split: Cards do not have the same value"
    ELSE ""

split_rejected(g, u) ==
    IF Len(g.player_hand) # 2
    THEN "Cannot split: Hand does not contain exactly two cards"
    ELSE IF g.player_hand[1] # g.player_hand[2]
    THEN "Cannot split: Cards do not have the same value"
    ELSE IF u < g.current_wager THEN "Cannot split: Insufficient coins"
    ELSE ""

\* player_split after its update_user_coins
player_split(g, u) ==
    [g EXCEPT !.player_coins = u, !.split = TRUE,
              !.player_second_hand = Append(@, Last(g.player_hand)),
              !.player_hand = Pop(g.player_hand)]

\* ------------------------------------------------------------ transactions
\* Transaction.create_transaction: balance_before is user.coins at the call
create_transaction(u, type, amount, game, ref) ==
    [type |-> type, game |-> game, amount |-> amount,
     balance_before |-> u, balance_after |-> u + amount, ref |-> ref]

\* ------------------------------------------------------------------ slots
MinSegment == 15
MaxSegment == 30

spin_reels == [0..2 -> MinSegment..MaxSegment]

\* -(a // -b)
ceildiv(a, b) == -((-a) \div b)

Reel0 == <<"CHERRY", "LEMON", "LEMON", "BANANA", "BANANA", "LEMON", "APPLE", "LEMON">>
Reel1 == <<"LEMON", "LEMON", "BANANA", "APPLE", "CHERRY", "LEMON", "LEMON", "APPLE">>
Reel2 == <<"LEMON", "LEMON", "BANANA", "LEMON", "CHERRY", "APPLE", "LEMON", "APPLE">>

\* the mappings are keyed 8..15
segment_to_fruit(reel_index, reel_segment) ==
    LET k == ceildiv(reel_segment, 2) - 7
    IN  IF reel_index = 0 THEN Reel0[k] ELSE IF reel_index = 1 THEN Reel1[k] ELSE Reel2[k]

\* variant: a pair on the first two reels pays nothing
endgame_triples(fruit0, fruit1, fruit2) ==
    IF fruit0 = "CHERRY" /\ fruit1 = "CHERRY" /\ fruit2 = "CHERRY" THEN 50
    ELSE IF fruit0 = "APPLE" /\ fruit1 = "APPLE" /\ fruit2 = "APPLE" THEN 20
    ELSE IF fruit0 = "BANANA" /\ fruit1 = "BANANA" /\ fruit2 = "BANANA" THEN 15
    ELSE IF fruit0 = "LEMON" /\ fruit1 = "LEMON" /\ fruit2 = "LEMON" THEN 3
    ELSE 0

endgame(fruit0, fruit1, fruit2) ==
    IF fruit0 = "CHERRY" /\ fruit1 = "CHERRY" /\ fruit2 = "CHERRY" THEN 50
    ELSE IF fruit0 = "CHERRY" /\ fruit1 = "CHERRY" THEN 40
    ELSE IF fruit0 = "APPLE" /\ fruit1 = "APPLE" /\ fruit2 = "APPLE" THEN 20
    ELSE IF fruit0 = "APPLE" /\ fruit1 = "APPLE" THEN 10
    ELSE IF fruit0 = "BANANA" /\ fruit1 = "BANANA" /\ fruit2 = "BANANA" THEN 15
    ELSE IF fruit0 = "BANANA" /\ fruit1 = "BANANA" THEN 5
    ELSE IF fruit0 = "LEMON" /\ fruit1 = "LEMON" /\ fruit2 = "LEMON" THEN 3
    ELSE 0

calculate_winnings(stop_segments) ==
    endgame(segment_to_fruit(0, stop_segments[0]), segment_to_fruit(1, stop_segments[1]),
            segment_to_fruit(2, stop_segments[2]))

\* what the achievement checks of a spin can do: nothing (no Achievement rows)
\* or raise before the commit
HookOutcomes == {"none", "error"}

\* --------------------------------------------------------------- roulette
ROULETTE_NUMBERS == 0..36

\* one entry of numbers_str.split(","): digit is str.isdigit(), int is whether
\* int(x) accepts it, n is int(x)
Tok(n) == [digit |-> TRUE, int |-> TRUE, n |-> n]
\* 'abc'
BadTok == [digit |-> FALSE, int |-> FALSE, n |-> 0]
\* a digit character that is no decimal digit, as a superscript two
OddTok == [digit |-> TRUE, int |-> FALSE, n |-> 0]

Bet(amt, odds, numbers) == [amt |-> amt, odds |-> odds, numbers |-> numbers]

BetLists ==
    { <<Bet(1, 2, <<Tok(0)>>)>>,
      <<Bet(1, 1, <<Tok(0), Tok(1)>>), Bet(1, 0, <<>>)>>,
      <<Bet(1, 1, <<Tok(0)>>), Bet(0, 1, <<Tok(0)>>)>>,
      <<Bet(1, 1, <<Tok(0)>>), Bet(1, -1, <<Tok(0)>>)>>,
      <<Bet(1, 1, <<Tok(0)>>), Bet(1, 1, <<Tok(37)>>)>>,
      <<Bet(1, 1, <<BadTok>>)>>,
      <<Bet(1, 2, <<Tok(0)>>), Bet(1, 1, <<Tok(0), Tok(1)>>)>>,
      <<Bet(1, 1, <<Tok(0)>>), Bet(None, 1, <<Tok(0)>>)>>,
      <<Bet(1, 1, <<Tok(0)>>), Bet(1, None, <<Tok(0)>>)>>,
      <<Bet(1, 1, <<Tok(0)>>), Bet(1, 1, <<Tok(1), BadTok>>)>>,
      <<Bet(1, 1, <<OddTok>>)>> }

RECURSIVE BetsInvalid(_)
BetsInvalid(bets) ==
    IF bets = <<>> THEN ""
    ELSE IF Head(bets).amt = None \/ Head(bets).amt <= 0 THEN "Invalid bet amount"
    ELSE IF Head(bets).odds = None \/ Head(bets).odds < 0 THEN "Invalid odds"
    ELSE BetsInvalid(Tail(bets))

RECURSIVE TotalBet(_)
TotalBet(bets) == IF bets = <<>> THEN 0 ELSE Head(bets).amt + TotalBet(Tail(bets))

BetNumbers(bet) == {bet.numbers[i].n : i \in 1..Len(bet.numbers)}

\* variant: a winning bet pays odds x amt without the stake
RECURSIVE SpinLoop_stake(_, _, _)
SpinLoop_stake(bets, winning_number, total_win) ==
    IF bets = <<>> THEN [status |-> 200, err |-> "", total_win |-> total_win]
    ELSE LET bet == Head(bets)
         IN  IF \E i \in 1..Len(bet.numbers) : ~bet.numbers[i].digit
             THEN [status |-> 400, err |-> "Invalid bet numbers", total_win |-> 0]
             ELSE IF \E i \in 1..Len(bet.numbers) : ~bet.numbers[i].int
             THEN [status |-> 500, err |-> "Internal server error", total_win |-> 0]
             ELSE IF \E n \in BetNumbers(bet) : n < 0 \/ n > 36
             THEN [status |-> 400, err |-> "Bet numbers must be between 0 and 36", total_win |-> 0]
             ELSE SpinLoop_stake(Tail(bets), winning_number,
                                 IF winning_number \in BetNumbers(bet)
                                 THEN total_win + (bet.odds * bet.amt)
                                 ELSE total_win)

\* the spin loop: [status, err, total_win]; it returns at the first bet whose
\* numbers do not parse, and int() raises on a digit it does not accept
RECURSIVE SpinLoop(_, _, _)
SpinLoop(bets, winning_number, total_win) ==
    IF bets = <<>> THEN [status |-> 200, err |-> "", total_win |-> total_win]
    ELSE LET bet == Head(bets)
         IN  IF \E i \in 1..Len(bet.numbers) : ~bet.numbers[i].digit
             THEN [status |-> 400, err |-> "Invalid bet numbers", total_win |-> 0]
             ELSE IF \E i \in 1..Len(bet.numbers) : ~bet.numbers[i].int
             THEN [status |-> 500, err |-> "Internal server error", total_win |-> 0]
             ELSE IF \E n \in BetNumbers(bet) : n < 0 \/ n > 36
             THEN [status |-> 400, err |-> "Bet numbers must be between 0 and 36", total_win |-> 0]
             ELSE SpinLoop(Tail(bets), winning_number,
                           IF winning_number \in BetNumbers(bet)
                           THEN total_win + (bet.odds * bet.amt) + bet.amt
                           ELSE total_win)

\* ------------------------------------------------------- database, sessions
VARIABLES coins, games, ledger, lock, nextRef, rng, sess, last, ncalls

vars == <<coins, games, ledger, lock, nextRef, rng, sess, last, ncalls>>

NoGame == BlackjackGameState(<<>>, 0, 0)

\* A request's session: the user and game_state objects it holds (u, g) with
\* the values they were loaded with (u0, g0), the transactions it added
\* (pend), and the response it returns.
IdleSess ==
    [pc |-> "idle", op |-> "", wager |-> 0, action |-> "", bets |-> <<>>,
     u |-> 0, u0 |-> 0, exp |-> FALSE, gid |-> 0, g |-> NoGame, g0 |-> NoGame,
     after |-> NoMessage, pend |-> <<>>, status |-> 0, msg |-> "", ret |-> None]

\* the database together with the session of the process that is running
World(p) ==
    [coins |-> coins, games |-> games, ledger |-> ledger, lock |-> lock,
     nextRef |-> nextRef, rng |-> rng, s |-> sess[p]]

Unlock(p, l) == IF l = p THEN 0 ELSE l

\* @token_required: User.query.filter_by(username=...).first()
token_required(st) == [st EXCEPT !.s.u = st.coins, !.s.u0 = st.coins, !.s.exp = FALSE]

\* first access to an expired object reloads it
Refresh(st) ==
    IF ~st.s.exp THEN st
    ELSE [st EXCEPT !.s.u = st.coins, !.s.u0 = st.coins, !.s.exp = FALSE,
                    !.s.g = IF st.s.gid = 0 THEN @ ELSE st.games[st.s.gid],
                    !.s.g0 = IF st.s.gid = 0 THEN @ ELSE st.games[st.s.gid]]

\* UPDATE ... SET of the columns the session changed
MergeRow(row, g, g0) == [f \in DOMAIN row |-> IF g[f] # g0[f] THEN g[f] ELSE row[f]]

\* an UPDATE of the users row waits for another session's row lock
CanWrite(p, st) == st.s.u = st.s.u0 \/ st.lock \in {0, p}

\* db.session.commit(): flush, end the transaction, expire the objects
Commit(p, st) ==
    [st EXCEPT !.coins = IF st.s.u # st.s.u0 THEN st.s.u ELSE @,
               !.games = IF st.s.gid = 0 THEN @
                         ELSE [@ EXCEPT ![st.s.gid] = MergeRow(@, st.s.g, st.s.g0)],
               !.ledger = @ \o st.s.pend,
               !.nextRef = IF st.s.pend = <<>> THEN @ ELSE @ + 1,
               !.lock = Unlock(p, @),
               !.s.pend = <<>>, !.s.exp = TRUE]

\* a return without commit: the request's session is removed, which rolls back
Return(p, st, status, msg) ==
    [st EXCEPT !.lock = Unlock(p, @), !.s.pend = <<>>,
               !.s.pc = "done", !.s.status = status, !.s.msg = msg]

\* return game_state.to_dict(), 200; ret is the view's player_coins
ReturnView(p, st) ==
    [st EXCEPT !.lock = Unlock(p, @),
               !.s.pc = "done", !.s.status = 200,
               !.s.ret = st.games[st.s.gid].player_coins]

\* return {..., new_coins / totalCoins: locked_user.coins}, 200
ReturnCoins(p, st) ==
    [st EXCEPT !.lock = Unlock(p, @),
               !.s.pc = "done", !.s.status = 200, !.s.ret = st.coins]

Goto(st, pc) == [st EXCEPT !.s.pc = pc]

\* ------------------------------------------------------------- start_game
\* variant: the active games are left open
CloseActive_none(gs) == gs

\* variant: the dealer plays out the games that are closed
CloseActive_dealer(gs) ==
    [i \in 1..Len(gs) |-> IF gs[i].game_over THEN gs[i]
                          ELSE dealer_turn([gs[i] EXCEPT !.game_over = TRUE])]

\* for game in active_games: game.game_over = True
CloseActive(gs) == [i \in 1..Len(gs) |-> [gs[i] EXCEPT !.game_over = TRUE]]

\* the wager and balance checks of start_game, "" when it goes on
start_game_rejected(wager, user_coins) ==
    IF wager <= 0 THEN "Invalid wager amount"
    ELSE IF user_coins < wager THEN "Insufficient coins"
    ELSE ""

start_game_begin(p, st) ==
    IF st.s.wager <= 0
    THEN {Return(p, st, 400, start_game_rejected(st.s.wager, st.s.u))}
    ELSE {Goto(st, "sg_lock")}

\* variant: the active games are closed before the balance check
start_game_lock_closing(p, st) ==
    IF st.lock # 0 THEN {}
    ELSE LET t == Refresh([st EXCEPT !.lock = p, !.games = CloseActive(@)])
         IN  IF start_game_rejected(t.s.wager, t.s.u) # ""
             THEN {Return(p, t, 400, start_game_rejected(t.s.wager, t.s.u))}
             ELSE {Goto(t, "sg_close")}

\* db.session.query(User).with_for_update()...first() and the balance check;
\* the query returns the session's user object as it was loaded
start_game_lock(p, st) ==
    IF st.lock # 0 THEN {}
    ELSE LET t == Refresh([st EXCEPT !.lock = p])
         IN  IF start_game_rejected(t.s.wager, t.s.u) # ""
             THEN {Return(p, t, 400, start_game_rejected(t.s.wager, t.s.u))}
             ELSE {Goto(t, "sg_close")}

\* terminate the active games; db.session.commit()
start_game_close(p, st) ==
    {[Commit(p, st) EXCEPT !.games = CloseActive(st.games), !.s.pc = "sg_deduct"]}

\* locked_user.coins -= wager; db.session.commit()
start_game_deduct(p, st) ==
    LET t == Refresh(st)
        t2 == [t EXCEPT !.s.u = @ - t.s.wager]
    IN  IF ~CanWrite(p, t2) THEN {} ELSE {Goto(Commit(p, t2), "sg_create")}

\* BlackjackGameState(...), the four deals, add, commit, to_dict
start_game_create(p, st) ==
    LET t == Refresh(st)
    IN  { ReturnView(p, [Commit(p, t) EXCEPT
                !.games = Append(@, Deal(BlackjackGameState(shuffle_deck(t.rng), t.s.u, t.s.wager))),
                !.rng = NextRandom(@),
                !.s.gid = Len(t.games) + 1]) }

\* ---------------------------------------------------------- player_action
\* BlackjackGameState.query.filter_by(user_id=user.id, game_over=False)
\* variant: the query does not filter on game_over
ActiveGames_any(gs) == 1..Len(gs)

\* BlackjackGameState.query.filter_by(user_id=user.id, game_over=False)
ActiveGames(gs) == {i \in 1..Len(gs) : ~gs[i].game_over}

player_action_query(p, st) ==
    IF ActiveGames(st.games) = {} THEN {Return(p, st, 400, "No active game")}
    ELSE { [st EXCEPT !.s.gid = i, !.s.g = st.games[i], !.s.g0 = st.games[i],
                      !.s.pc = "pa_act"] : i \in ActiveGames(st.games) }

\* commit of a hit/stand/double-down result r; a settling result has run
\* determine_winner up to its update_user_coins and goes on after that commit
AfterPlay(p, st, r) ==
    LET t == [st EXCEPT !.s.g = r.g, !.s.u = r.u, !.s.after = r.after]
    IN  IF ~CanWrite(p, t) THEN {}
        ELSE IF r.settle
        THEN {Goto(Commit(p, t), "dw_finish")}
        ELSE {ReturnView(p, Commit(p, t))}

\* user.coins -= game_state.current_wager; update_user_coins(user, user.coins)
PayStake(p, st, next) ==
    LET t == [st EXCEPT !.s.u = @ - st.s.g.current_wager]
    IN  IF ~CanWrite(p, t) THEN {} ELSE {Goto(Commit(p, t), next)}

player_action(p, st) ==
    LET s == st.s
    IN  IF s.action = "hit" THEN AfterPlay(p, st, player_hit(s.g, s.u))
        ELSE IF s.action = "stand" THEN AfterPlay(p, st, player_stand(s.g, s.u))
        ELSE IF s.action = "double_down"
        THEN IF double_down_rejected(s.g, s.u) # ""
             THEN {Return(p, st, 400, double_down_rejected(s.g, s.u))}
             ELSE PayStake(p, st, "dd_after")
        ELSE IF s.action = "split"
        THEN IF split_rejected(s.g, s.u) # ""
             THEN {Return(p, st, 400, split_rejected(s.g, s.u))}
             ELSE PayStake(p, st, "sp_after")
        ELSE {Return(p, st, 400, "Invalid action")}

double_down_after(p, st) ==
    LET t == Refresh(st) IN AfterPlay(p, t, player_double_down(t.s.g, t.s.u))

split_after(p, st) ==
    LET t == Refresh(st)
    IN  {ReturnView(p, Commit(p, [t EXCEPT !.s.g = player_split(t.s.g, t.s.u)]))}

\* determine_winner after update_user_coins: player_coins, the split message,
\* game_over = True, commit; then the caller's commit and to_dict
determine_winner_finish(p, st) ==
    LET t == Refresh(st)
        g == [t.s.g EXCEPT !.player_coins = t.s.u,
                           !.message = IF t.s.after # NoMessage THEN t.s.after ELSE @,
                           !.game_over = TRUE]
    IN  {ReturnView(p, Commit(p, [t EXCEPT !.s.g = g]))}

\* ---------------------------------------------------------- rouletteAction
rouletteAction_begin(p, st) ==
    IF st.s.bets = <<>> THEN {Return(p, st, 400, "Bet details are required")}
    ELSE IF BetsInvalid(st.s.bets) # "" THEN {Return(p, st, 400, BetsInvalid(st.s.bets))}
    ELSE {Goto(st, "ro_lock")}

\* variant: the balance is not compared with the total bet
rouletteAction_lock_nocheck(p, st) ==
    IF st.lock # 0 THEN {}
    ELSE {Goto(Refresh([st EXCEPT !.lock = p]), "ro_settle")}

rouletteAction_lock(p, st) ==
    IF st.lock # 0 THEN {}
    ELSE LET t == Refresh([st EXCEPT !.lock = p])
         IN  IF t.s.u < TotalBet(t.s.bets)
             THEN {Return(p, t, 400, "Not enough coins for all bets")}
             ELSE {Goto(t, "ro_settle")}

\* variant: a return out of the spin loop commits what the session holds
rouletteSettle_commits(p, st, winning_number) ==
    LET total_bet == TotalBet(st.s.bets)
        u1 == st.s.u - total_bet
        bet == create_transaction(u1, "BET", -total_bet, "ROULETTE", st.nextRef)
        t1 == [st EXCEPT !.s.u = u1, !.s.pend = <<bet>>]
        r == SpinLoop(st.s.bets, winning_number, 0)
        u2 == u1 + r.total_win
        win == create_transaction(u2, "WIN", r.total_win, "ROULETTE", st.nextRef)
    IN  IF r.err # "" THEN Return(p, Commit(p, t1), r.status, r.err)
        ELSE ReturnCoins(p, Commit(p, [t1 EXCEPT !.s.u = u2,
                !.s.pend = IF r.total_win > 0 THEN <<bet, win>> ELSE <<bet>>]))

\* variant: a WIN transaction is written for a total win of 0 as well
rouletteSettle_zero_win(p, st, winning_number) ==
    LET total_bet == TotalBet(st.s.bets)
        u1 == st.s.u - total_bet
        bet == create_transaction(u1, "BET", -total_bet, "ROULETTE", st.nextRef)
        t1 == [st EXCEPT !.s.u = u1, !.s.pend = <<bet>>]
        r == SpinLoop(st.s.bets, winning_number, 0)
        u2 == u1 + r.total_win
        win == create_transaction(u2, "WIN", r.total_win, "ROULETTE", st.nextRef)
    IN  IF r.err # "" THEN Return(p, t1, r.status, r.err)
        ELSE ReturnCoins(p, Commit(p, [t1 EXCEPT !.s.u = u2, !.s.pend = <<bet, win>>]))

\* deduct, BET transaction, spin, WIN transaction, commit; t1 is the session
\* when the wheel is spun
rouletteSettle(p, st, winning_number) ==
    LET total_bet == TotalBet(st.s.bets)
        u1 == st.s.u - total_bet
        bet == create_transaction(u1, "BET", -total_bet, "ROULETTE", st.nextRef)
        t1 == [st EXCEPT !.s.u = u1, !.s.pend = <<bet>>]
        r == SpinLoop(st.s.bets, winning_number, 0)
        u2 == u1 + r.total_win
        win == create_transaction(u2, "WIN", r.total_win, "ROULETTE", st.nextRef)
    IN  IF r.err # "" THEN Return(p, t1, r.status, r.err)
        ELSE ReturnCoins(p, Commit(p, [t1 EXCEPT !.s.u = u2,
                !.s.pend = IF r.total_win > 0 THEN <<bet, win>> ELSE <<bet>>]))

rouletteAction_settle(p, st) ==
    {rouletteSettle(p, st, n) : n \in ROULETTE_NUMBERS}

\* ------------------------------------------------------------ cherryAction
\* variant: the balance is not compared with the stake
cherryAction_lock_nocheck(p, st) ==
    IF st.lock # 0 THEN {}
    ELSE {Goto(Refresh([st EXCEPT !.lock = p]), "ch_settle")}

cherryAction_lock(p, st) ==
    IF st.lock # 0 THEN {}
    ELSE LET t == Refresh([st EXCEPT !.lock = p])
         IN  IF t.s.u < SlotStake
             THEN {Return(p, t, 400, "Not enough coins to spin")}
             ELSE {Goto(t, "ch_settle")}

\* deduct, BET transaction, spin, WIN transaction, achievement checks, commit;
\* t2 is the session when the achievement checks run
cherrySettle(p, st, stop_segments, hook) ==
    LET u1 == st.s.u - SlotStake
        bet == create_transaction(u1, "BET", -SlotStake, "SLOTS", st.nextRef)
        winnings == calculate_winnings(stop_segments)
        u2 == u1 + winnings
        win == create_transaction(u2, "WIN", winnings, "SLOTS", st.nextRef)
        t2 == [st EXCEPT !.s.u = u2,
                         !.s.pend = IF winnings > 0 THEN <<bet, win>> ELSE <<bet>>]
    IN  IF hook = "error" THEN Return(p, t2, 500, "Internal server error")
        ELSE ReturnCoins(p, Commit(p, t2))

\* the stops random.randint draws in this model: CHERRY LEMON LEMON pays
\* nothing, three LEMON pay 3
ReelStops == {[i \in 0..2 |-> MinSegment], [i \in 0..2 |-> IF i = 0 THEN MinSegment + 2 ELSE MinSegment]}

cherryAction_settle(p, st) ==
    {cherrySettle(p, st, segs, hook) : segs \in ReelStops, hook \in HookOutcomes}

\* ------------------------------------------------------------------ steps
\* the request's first step: the route loads current_user, then the handler
\* runs up to its first wait or commit
RequestBegin(p, st) ==
    LET t == token_required(st)
    IN  IF t.s.op = "start" THEN start_game_begin(p, t)
        ELSE IF t.s.op = "action" THEN {Goto(t, "pa_query")}
        ELSE IF t.s.op = "roulette" THEN rouletteAction_begin(p, t)
        ELSE {Goto(t, "ch_lock")}

\* the states process p's request can be in after its next step; the reload
\* of the expired objects after a commit is a step of its own
Steps(p, st) ==
    LET pc == st.s.pc
    IN  IF st.s.exp /\ pc \in {"sg_deduct", "sg_create", "dd_after", "sp_after", "dw_finish"}
        THEN {Refresh(st)}
        ELSE IF pc = "begin" THEN RequestBegin(p, st)
        ELSE IF pc = "sg_lock" THEN start_game_lock(p, st)
        ELSE IF pc = "sg_close" THEN start_game_close(p, st)
        ELSE IF pc = "sg_deduct" THEN start_game_deduct(p, st)
        ELSE IF pc = "sg_create" THEN start_game_create(p, st)
        ELSE IF pc = "pa_query" THEN player_action_query(p, st)
        ELSE IF pc = "pa_act" THEN player_action(p, st)
        ELSE IF pc = "dd_after" THEN double_down_after(p, st)
        ELSE IF pc = "sp_after" THEN split_after(p, st)
        ELSE IF pc = "dw_finish" THEN determine_winner_finish(p, st)
        ELSE IF pc = "ro_lock" THEN rouletteAction_lock(p, st)
        ELSE IF pc = "ro_settle" THEN rouletteAction_settle(p, st)
        ELSE IF pc = "ch_lock" THEN cherryAction_lock(p, st)
        ELSE IF pc = "ch_settle" THEN cherryAction_settle(p, st)
        ELSE {}

\* a request run from st to its response with no other request in between
RECURSIVE RunToEnd(_, _)
RunToEnd(p, st) ==
    IF st.s.pc = "done" THEN {st} ELSE UNION {RunToEnd(p, t) : t \in Steps(p, st)}

NewRequest(op, wager, action, bets) ==
    [IdleSess EXCEPT !.pc = "begin", !.op = op, !.wager = wager, !.action = action,
                     !.bets = bets]

\* the completed call as the client and the tests see it
Completed(p, s) ==
    [p |-> p, op |-> s.op, status |-> s.status, msg |-> s.msg, ret |-> s.ret, gid |-> s.gid]

NoCall == Completed(0, IdleSess)

Install(p, t) ==
    /\ coins' = t.coins
    /\ games' = t.games
    /\ ledger' = t.ledger
    /\ lock' = t.lock
    /\ nextRef' = t.nextRef
    /\ rng' = t.rng
    /\ IF t.s.pc = "done"
       THEN /\ sess' = [sess EXCEPT ![p] = IdleSess]
            /\ last' = Completed(p, t.s)
       ELSE /\ sess' = [sess EXCEPT ![p] = t.s]
            /\ last' = last

Init ==
    /\ coins = InitCoins
    /\ games = <<>>
    /\ ledger = <<>>
    /\ lock = 0
    /\ nextRef = 1
    /\ rng \in Tops
    /\ sess = [p \in Procs |-> IdleSess]
    /\ last = NoCall
    /\ ncalls = 0

Wagers == 0..MaxWager
Actions == {"hit", "stand", "double_down", "split", "surrender"}

AllIdle == \A p \in Procs : sess[p].pc = "idle"

\* the bounds on the rows of blackjack_game_state and of transactions
StartsInFlight == Cardinality({p \in Procs : sess[p].op = "start"})
MayStart(w) == Len(games) + StartsInFlight < MaxGames
MayBet == Len(ledger) + 2 <= MaxLedger

\* ---------------------------------------------- one request at a time (Spec)
Call(req) ==
    /\ AllIdle
    /\ UNCHANGED ncalls
    /\ \E t \in RunToEnd(1, [World(1) EXCEPT !.s = req]) : Install(1, t)

StartGame ==
    \E w \in Wagers :
        /\ MayStart(w) \/ start_game_rejected(w, coins) # ""
        /\ Call(NewRequest("start", w, "", <<>>))
PlayerAction == \E a \in Actions : Call(NewRequest("action", 0, a, <<>>))
Roulette == MayBet /\ \E b \in BetLists : Call(NewRequest("roulette", 0, "", b))
Spin == MayBet /\ Call(NewRequest("spin", 0, "", <<>>))

Next == StartGame \/ PlayerAction \/ Roulette \/ Spin

Spec == Init /\ [][Next]_vars

\* ---------------------------- concurrent requests (SpecStarts, SpecPlay)
Begin(p, req) ==
    /\ sess[p].pc = "idle"
    /\ ncalls < MaxCalls
    /\ ncalls' = ncalls + 1
    /\ sess' = [sess EXCEPT ![p] = req]
    /\ UNCHANGED <<coins, games, ledger, lock, nextRef, rng, last>>

BeginStartGame(p) == \E w \in Wagers : MayStart(w) /\ Begin(p, NewRequest("start", w, "", <<>>))
BeginPlayerAction(p) == \E a \in Actions : Begin(p, NewRequest("action", 0, a, <<>>))

Step(p) ==
    /\ sess[p].pc \notin {"idle"}
    /\ UNCHANGED ncalls
    /\ \E t \in Steps(p, World(p)) : Install(p, t)

\* concurrent start_game requests
NextStarts == \E p \in Procs : BeginStartGame(p) \/ Step(p)

SpecStarts == Init /\ [][NextStarts]_vars

\* one start_game runs to its end, then player_action requests run concurrently
FirstStart == games = <<>> /\ StartGame

NextPlay == FirstStart \/ \E p \in Procs : BeginPlayerAction(p) \/ Step(p)

SpecPlay == Init /\ [][NextPlay]_vars

\* ---------------------------------- roulette and slot calls only (SpecBets)
MayBetMore == Len(ledger) + 2 <= MaxEntries

RouletteCall(b) == Call(NewRequest("roulette", 0, "", b))
SpinCall == Call(NewRequest("spin", 0, "", <<>>))

RouletteBet == MayBetMore /\ \E b \in BetLists : RouletteCall(b)
SpinBet == MayBetMore /\ SpinCall

NextBets == RouletteBet \/ SpinBet

SpecBets == Init /\ [][NextBets]_vars

\* ------------------------- concurrent roulette and slot calls (SpecWagers)
WagersInFlight == Cardinality({p \in Procs : sess[p].op \in {"roulette", "spin"}})
MayWager == Len(ledger) + 2 * (WagersInFlight + 1) <= MaxEntries

BeginRoulette(p) == MayWager /\ \E b \in BetLists : Begin(p, NewRequest("roulette", 0, "", b))
BeginSpin(p) == MayWager /\ Begin(p, NewRequest("spin", 0, "", <<>>))

NextWagers == \E p \in Procs : BeginRoulette(p) \/ BeginSpin(p) \/ Step(p)

SpecWagers == Init /\ [][NextWagers]_vars

\* ------------------------------------------------------------- properties
\* the rows of blackjack_game_state that are not over
OpenGames(gs) == {i \in 1..Len(gs) : ~gs[i].game_over}

RECURSIVE LedgerSum(_)
LedgerSum(l) == IF l = <<>> THEN 0 ELSE l[1].amount + LedgerSum(Tail(l))

BlackjackBets(l) == {k \in 1..Len(l) : l[k].type = "BET" /\ l[k].game = "BLACKJACK"}

\* what a game has staked, and what its final hands earn against the dealer
Staked(g) == IF g.split THEN 2 * g.current_wager ELSE g.current_wager
HandPayout(g, hand) ==
    Credit(compare_hands(calculate_hand_value(hand), calculate_hand_value(g.dealer_hand)),
           g.current_wager)
Payout(g) ==
    HandPayout(g, g.player_hand) + (IF g.split THEN HandPayout(g, g.player_second_hand) ELSE 0)

\* C1: when blackjack actions on one game run concurrently, the game is settled
\* once.  Taken for the requests that leave the dealt hand as it is (stands):
\* after they have all returned, the balance is the initial balance minus the
\* wager plus one payout for the hand.
C1_SettledOnce ==
    (/\ AllIdle /\ Len(games) = 1 /\ ledger = <<>>
     /\ games[1].game_over /\ ~games[1].split /\ Len(games[1].player_hand) = 2)
        => coins = InitCoins - Staked(games[1]) + Payout(games[1])

\* C2: under concurrent start_game requests the balance never goes negative and,
\* once they have all returned, every game created has had its wager deducted.
RECURSIVE Wagered(_)
Wagered(gs) == IF gs = <<>> THEN 0 ELSE gs[1].current_wager + Wagered(Tail(gs))

C2_StartsSerialised ==
    /\ coins >= 0
    /\ AllIdle => coins = InitCoins - Wagered(games)

\* C3: an account has at most one open game at any time, also when start_game
\* requests run concurrently.
C3_OneOpenGame == Cardinality(OpenGames(games)) <= 1

\* C4: after any sequence of operations the balance is the initial balance plus
\* the sum of the amounts of the account's ledger entries.
C4_BalanceIsLedgerSum == coins = InitCoins + LedgerSum(ledger)

\* C5: every ledger entry has balance_after = balance_before + amount, each
\* entry's balance_after is the next entry's balance_before, and the last entry's
\* balance_after is the current balance.
C5_LedgerChain ==
    /\ \A k \in 1..Len(ledger) : ledger[k].balance_after = ledger[k].balance_before + ledger[k].amount
    /\ \A k \in 1..(Len(ledger) - 1) : ledger[k].balance_after = ledger[k + 1].balance_before
    /\ ledger # <<>> => Last(ledger).balance_after = coins

\* C6: every successful start_game appends one BET entry of game BLACKJACK whose
\* amount is minus the wager, so the ledger holds at least one such entry for
\* every game row.
C6_StartWritesBet ==
    /\ Cardinality(BlackjackBets(ledger)) >= Len(games)
    /\ (last.op = "start" /\ last.status = 200) =>
          /\ ledger # <<>>
          /\ Last(ledger).type = "BET"
          /\ Last(ledger).game = "BLACKJACK"
          /\ Last(ledger).amount = -games[last.gid].current_wager

\* C7: with one request at a time, a successful start_game leaves exactly one
\* open game, the new one, and every game that was open before it is closed.
C7_StartLeavesOneOpen ==
    /\ Cardinality(OpenGames(games)) <= 1
    /\ (last.op = "start" /\ last.status = 200) =>
          /\ last.gid = Len(games)
          /\ OpenGames(games) = {last.gid}

\* a second start_game has force-closed the game the first one opened
C7_Witness ==
    /\ last.op = "start" /\ last.status = 200
    /\ Len(games) = 2
    /\ games[1].game_over /\ games[1].message = NoMessage /\ games[1].dealer_value = None
    /\ OpenGames(games) = {2}

\* C8: a start_game that fails, with a non-positive wager or a wager above the
\* balance, leaves the balance, the ledger and the games unchanged: the open
\* game stays open.
C8_FailedStartChangesNothing ==
    [][(last'.op = "start" /\ last'.status # 200)
          => /\ last'.status = 400
             /\ last'.msg \in {"Invalid wager amount", "Insufficient coins"}
             /\ coins' = coins /\ ledger' = ledger /\ games' = games]_vars

\* a start_game was refused for lack of coins while a game is open
C8_Witness ==
    /\ last.op = "start" /\ last.status = 400 /\ last.msg = "Insufficient coins"
    /\ OpenGames(games) # {}

\* C9: an action on an account without an open game returns 'No active game'
\* and changes nothing.
C9_NoActiveGame ==
    [][(last'.op = "action" /\ OpenGames(games) = {})
          => /\ last'.status = 400
             /\ last'.msg = "No active game"
             /\ coins' = coins /\ ledger' = ledger /\ games' = games]_vars

\* an action was refused after a double down had ended the only game
C9_Witness ==
    /\ last.op = "action" /\ last.status = 400 /\ last.msg = "No active game"
    /\ games # <<>>
    /\ Last(games).double_down /\ Last(games).game_over

\* C10: a game moves forward only.  current_hand changes only from first to
\* second, and only in a split game; the dealer's hand changes only in the step
\* that ends the game; a game that is over stays over with its hands and its
\* wager as they are.
GameMovesForward(g, h) ==
    /\ g.current_hand # h.current_hand =>
          g.current_hand = "first" /\ h.current_hand = "second" /\ g.split /\ h.split
    /\ g.dealer_hand # h.dealer_hand => ~g.game_over /\ h.game_over
    /\ g.game_over =>
          /\ h.game_over
          /\ h.player_hand = g.player_hand
          /\ h.player_second_hand = g.player_second_hand
          /\ h.dealer_hand = g.dealer_hand
          /\ h.current_wager = g.current_wager

C10_GameMovesForward ==
    [][/\ Len(games') >= Len(games)
       /\ \A i \in 1..Len(games) : GameMovesForward(games[i], games'[i])]_vars

\* a split game has been played through both hands and settled
C10_Witness ==
    \E i \in 1..Len(games) :
        /\ games[i].split /\ games[i].current_hand = "second"
        /\ games[i].game_over /\ games[i].dealer_value # None
        /\ Len(games[i].dealer_hand) > 2

\* ----------------------------------------------- properties of the actions
\* the requests, as steps of Spec
Hit == Call(NewRequest("action", 0, "hit", <<>>))
Stand == Call(NewRequest("action", 0, "stand", <<>>))
DoubleDown == Call(NewRequest("action", 0, "double_down", <<>>))
Split == Call(NewRequest("action", 0, "split", <<>>))

\* the open game of the account, with one request at a time
Cur == CHOOSE i \in OpenGames(games) : TRUE

OnFirstOfSplit(g) == g.split /\ g.current_hand = "first"
SelectedHand(g) == IF g.split /\ g.current_hand = "second" THEN "player_second_hand" ELSE "player_hand"
OtherHand(g) == IF SelectedHand(g) = "player_hand" THEN "player_second_hand" ELSE "player_hand"

\* the value the hand selected in g has in h
HitValue(g, h) == calculate_hand_value(h[SelectedHand(g)])

DealerPlayedOut(h) ==
    /\ calculate_hand_value(h.dealer_hand) >= 17
    /\ h.dealer_value = calculate_hand_value(h.dealer_hand)

\* C11: a hit that brings the selected hand to exactly 21 makes that hand stand:
\* on the first hand of a split game current_hand becomes second and the game
\* stays open without dealer play or settlement; otherwise the game ends, the
\* dealer plays and the outcome is settled.
C11_HitTo21 ==
    [][(Hit /\ OpenGames(games) # {} /\ HitValue(games[Cur], games'[Cur]) = 21)
          => IF OnFirstOfSplit(games[Cur])
             THEN /\ games'[Cur].current_hand = "second"
                  /\ ~games'[Cur].game_over
                  /\ games'[Cur].dealer_hand = games[Cur].dealer_hand
                  /\ coins' = coins
             ELSE /\ games'[Cur].game_over
                  /\ DealerPlayedOut(games'[Cur])
                  /\ coins' = coins + Payout(games'[Cur])]_vars

\* C12: a hit that leaves the selected hand below 21 keeps the game open on the
\* same hand, in an unsplit game and on both hands of a split game.
C12_HitBelow21 ==
    [][(Hit /\ OpenGames(games) # {} /\ HitValue(games[Cur], games'[Cur]) < 21)
          => /\ ~games'[Cur].game_over
             /\ games'[Cur].current_hand = games[Cur].current_hand]_vars

\* C13: a hit draws exactly one card, the tail of the deck, into the selected
\* hand.  When the hand then exceeds 21 on the first of two split hands,
\* current_hand becomes second and the game stays open with the balance as it
\* was; when it exceeds 21 otherwise, the game ends, the dealer plays out and
\* the game is settled without a credit for the busted hand.
C13_HitDrawsOne ==
    [][(Hit /\ OpenGames(games) # {})
          => LET g == games[Cur]
                 h == games'[Cur]
             IN  /\ h[SelectedHand(g)] = Append(g[SelectedHand(g)], TopCard(g.deck))
                 /\ h[OtherHand(g)] = g[OtherHand(g)]
                 /\ DeckLen(h.deck) = DeckLen(g.deck) - 1 - (Len(h.dealer_hand) - Len(g.dealer_hand))
                 /\ HitValue(g, h) > 21 =>
                       IF OnFirstOfSplit(g)
                       THEN h.current_hand = "second" /\ ~h.game_over /\ coins' = coins
                       ELSE /\ h.game_over
                            /\ DealerPlayedOut(h)
                            /\ coins' = coins + (IF h.split THEN HandPayout(h, h[OtherHand(g)]) ELSE 0)]_vars

\* a hit has busted an unsplit hand and the dealer has drawn after it
C13_Witness ==
    /\ last.op = "action" /\ last.status = 200
    /\ games # <<>>
    /\ LET h == Last(games)
       IN  /\ h.game_over /\ ~h.split /\ ~h.double_down
           /\ calculate_hand_value(h.player_hand) > 21
           /\ Len(h.player_hand) = 3
           /\ Len(h.dealer_hand) > 2

\* C14: a stand on the first hand of a split game sets current_hand to second
\* and leaves the game open, the balance, the hands and the deck as they were;
\* a stand in every other open state plays the dealer, settles every hand and
\* leaves the game over.
C14_Stand ==
    [][(Stand /\ OpenGames(games) # {})
          => LET g == games[Cur]
                 h == games'[Cur]
             IN  /\ h.player_hand = g.player_hand
                 /\ h.player_second_hand = g.player_second_hand
                 /\ IF OnFirstOfSplit(g)
                    THEN /\ h.current_hand = "second" /\ ~h.game_over
                         /\ coins' = coins
                         /\ h.dealer_hand = g.dealer_hand /\ h.deck = g.deck
                    ELSE /\ h.game_over
                         /\ DealerPlayedOut(h)
                         /\ coins' = coins + Payout(h)]_vars

\* the first hand of a split game has stood on its single card
C14_Witness ==
    /\ last.op = "action" /\ last.status = 200
    /\ games # <<>>
    /\ LET h == Last(games)
       IN  /\ h.split /\ ~h.game_over /\ h.current_hand = "second"
           /\ Len(h.player_hand) = 1 /\ Len(h.player_second_hand) = 1

\* the outcome of a hand and its credit, as the rules state them
RuleOutcome(pv, dv) ==
    IF pv > 21 THEN "lose"
    ELSE IF dv > 21 THEN "win"
    ELSE IF pv > dv THEN "win"
    ELSE IF pv = dv THEN "tie"
    ELSE "lose"
RuleCredit(outcome, wager) ==
    IF outcome = "win" THEN 2 * wager ELSE IF outcome = "tie" THEN wager ELSE 0
RuleHandCredit(h, hand) ==
    RuleCredit(RuleOutcome(calculate_hand_value(hand), calculate_hand_value(h.dealer_hand)),
               h.current_wager)

Rejected == last'.status = 400 /\ coins' = coins /\ games' = games /\ ledger' = ledger

DoubleDownBarred(g) == Len(g.player_hand) > 2 \/ g.double_down \/ g.split \/ g.player_stood

\* C15: a double down is rejected as an invalid action when the hand has more
\* than 2 cards, double down was used, the game is split or the hand stood, and
\* otherwise for insufficient funds when the balance is below the wager; a
\* rejected double down changes nothing and the game stays open.
C15_DoubleDownRejected ==
    [][(DoubleDown /\ OpenGames(games) # {})
          => /\ DoubleDownBarred(games[Cur]) =>
                   Rejected /\ last'.msg = "Cannot double down at this stage"
             /\ (~DoubleDownBarred(games[Cur]) /\ coins < games[Cur].current_wager) =>
                   Rejected /\ last'.msg = "Insufficient coins to double down"
             /\ last'.status # 200 => Rejected /\ OpenGames(games') = OpenGames(games)]_vars

\* a double down was refused on a hand of three cards
C15_Witness ==
    /\ last.op = "action" /\ last.status = 400
    /\ last.msg = "Cannot double down at this stage"
    /\ OpenGames(games) # {}
    /\ Len(Last(games).player_hand) > 2

\* C16: an accepted double down takes the wager from the balance, doubles the
\* wager, draws one card into the player hand and ends the game in the same
\* call: a bust earns nothing, otherwise the dealer plays and the hand is
\* settled on the doubled wager.
C16_DoubleDown ==
    [][(DoubleDown /\ OpenGames(games) # {} /\ last'.status = 200)
          => LET g == games[Cur]
                 h == games'[Cur]
             IN  /\ h.current_wager = 2 * g.current_wager
                 /\ h.player_hand = Append(g.player_hand, TopCard(g.deck))
                 /\ h.double_down /\ h.game_over
                 /\ IF calculate_hand_value(h.player_hand) > 21
                    THEN coins' = coins - g.current_wager
                    ELSE /\ DealerPlayedOut(h)
                         /\ coins' = coins - g.current_wager + RuleHandCredit(h, h.player_hand)]_vars

\* a double down of wager 1 has won: the balance is 4 above the one it left
C16_Witness ==
    /\ last.op = "action" /\ last.status = 200
    /\ games # <<>>
    /\ LET h == Last(games)
       IN  /\ h.double_down /\ h.game_over /\ h.current_wager = 2
           /\ h.message = <<"Ganaste!">>
           /\ Len(h.player_hand) = 3

\* C17: a split is rejected unless the selected hand has exactly two cards of
\* equal value; a rejected split changes nothing.
C17_SplitRejected ==
    [][(Split /\ OpenGames(games) # {})
          => LET active == games[Cur][SelectedHand(games[Cur])]
             IN  ~(Len(active) = 2 /\ active[1] = active[2]) => Rejected]_vars

\* C18: an accepted split takes the wager from the balance, sets split, leaves
\* one card in each of the two hands, draws nothing, leaves the wager and the
\* dealer's hand as they were and the game open on the first hand.
C18_Split ==
    [][(Split /\ OpenGames(games) # {} /\ last'.status = 200)
          => LET g == games[Cur]
                 h == games'[Cur]
             IN  /\ coins' = coins - g.current_wager
                 /\ h.split
                 /\ Len(h.player_hand) = 1 /\ Len(h.player_second_hand) = 1
                 /\ h.deck = g.deck
                 /\ h.current_wager = g.current_wager
                 /\ h.dealer_hand = g.dealer_hand
                 /\ ~h.game_over /\ h.current_hand = "first"]_vars

\* C19: when a split game is settled, each hand is compared with the same final
\* dealer value and the balance grows by the sum of the two hands' credits.
C19_SplitSettlement ==
    [][(last'.op = "action" /\ OpenGames(games) # {}
          /\ games'[Cur].game_over /\ games'[Cur].split)
          => LET h == games'[Cur]
             IN  /\ h.dealer_value = calculate_hand_value(h.dealer_hand)
                 /\ coins' = coins + RuleHandCredit(h, h.player_hand)
                                   + RuleHandCredit(h, h.player_second_hand)]_vars

\* a split game was settled with different outcomes for its two hands
C19_Witness ==
    /\ last.op = "action" /\ last.status = 200
    /\ games # <<>>
    /\ LET h == Last(games)
       IN  /\ h.split /\ h.game_over /\ h.dealer_value # None
           /\ RuleHandCredit(h, h.player_hand) # RuleHandCredit(h, h.player_second_hand)

\* compare_hands against the rules, for every pair of hand values
OutcomeTable == \A pv \in 2..31, dv \in 2..31 : compare_hands(pv, dv) = RuleOutcome(pv, dv)

\* C20: the outcome of a hand is lose above 21, else win when the dealer is
\* above 21, else win, tie or lose by comparison; settling a game credits twice
\* the wager for a win, the wager for a tie, nothing for a loss, and ends it.
C20_Outcome ==
    [][/\ OutcomeTable
       /\ ((Hit \/ Stand) /\ OpenGames(games) # {}
             /\ ~games[Cur].split /\ games'[Cur].dealer_value # None)
             => LET h == games'[Cur]
                IN  /\ h.game_over
                    /\ h.message = OutcomeMessage(RuleOutcome(calculate_hand_value(h.player_hand),
                                                              calculate_hand_value(h.dealer_hand)))
                    /\ coins' = coins + RuleHandCredit(h, h.player_hand)]_vars

\* an unsplit game was settled as a tie and the wager came back
C20_Witness ==
    /\ last.op = "action" /\ last.status = 200
    /\ games # <<>>
    /\ LET h == Last(games)
       IN  /\ ~h.split /\ ~h.double_down /\ h.game_over
           /\ h.message = <<"It's a tie.">>
           /\ calculate_hand_value(h.player_hand) = calculate_hand_value(h.dealer_hand)


\* ------------------------------------------- dealer play and hand values
\* the deck after n cards have been popped, and the j-th card popped
RECURSIVE PopN(_, _)
PopN(d, n) == IF n = 0 THEN d ELSE PopN(PopCard(d), n - 1)
CardAt(d, j) == TopCard(PopN(d, j - 1))

PlayerCards(g) == Len(g.player_hand) + Len(g.player_second_hand)

\* h is g after the player drew k cards and the dealer then played: the dealer's
\* new cards are the next cards of the deck in order, every hand the dealer
\* drew on was below 17 and the final hand is not
DealerTurnRule(g, h, k) ==
    LET n == Len(g.dealer_hand)
        m == Len(h.dealer_hand)
    IN  /\ m >= n
        /\ SubSeq(h.dealer_hand, 1, n) = g.dealer_hand
        /\ \A j \in n..(m - 1) : calculate_hand_value(SubSeq(h.dealer_hand, 1, j)) < 17
        /\ calculate_hand_value(h.dealer_hand) >= 17
        /\ \A j \in 1..(m - n) : h.dealer_hand[n + j] = CardAt(g.deck, k + j)
        /\ h.deck = PopN(g.deck, k + m - n)

\* dealer_turn on every dealer hand of two cards over every shoe: it follows
\* the rule, and the player's side of the game does not change what it does
DealerTurnTable ==
    \A hand \in [1..2 -> CardValues], top \in Tops :
        LET g == [BlackjackGameState(ShoeOf[top], 0, 1) EXCEPT !.dealer_hand = hand]
            g2 == [g EXCEPT !.player_hand = <<10, 10, 5>>, !.current_wager = 2,
                            !.player_stood = TRUE, !.player_coins = 1]
        IN  /\ DealerTurnRule(g, dealer_turn(g), 0)
            /\ dealer_turn(g2).dealer_hand = dealer_turn(g).dealer_hand
            /\ dealer_turn(g2).deck = dealer_turn(g).deck

\* C21: dealer play draws the tail card of the deck while and only while the
\* dealer's value is below 17: it ends with a value of at least 17, draws
\* nothing when the value is already at least 17, and what it draws is fixed by
\* the dealer's hand and the order of the deck.  Taken for every step of a game
\* in which the dealer's hand changes or the game is settled, and for
\* dealer_turn on every two-card hand over every shoe.
C21_DealerTurn ==
    [][/\ DealerTurnTable
       /\ \A i \in 1..Len(games) :
             (games'[i].dealer_hand # games[i].dealer_hand
                \/ (games[i].dealer_value = None /\ games'[i].dealer_value # None))
             => DealerTurnRule(games[i], games'[i], PlayerCards(games'[i]) - PlayerCards(games[i]))]_vars

\* the player stood on two cards and the dealer drew from 15 to above 21
C21_Witness ==
    /\ last.op = "action" /\ last.status = 200
    /\ games # <<>>
    /\ LET h == Last(games)
       IN  /\ h.game_over /\ ~h.split /\ ~h.double_down
           /\ Len(h.player_hand) = 2
           /\ h.dealer_hand = <<5, 10, 10>>
           /\ h.dealer_value = 25

\* the totals of a hand over the assignments of 1 or 11 to each of its Aces
AceTotals(hand) == {SumSeq(hand) - 10 * k : k \in 0..Count(hand, 11)}
TotalsWithin(hand) == {t \in AceTotals(hand) : t <= 21}
BestTotal(hand) == CHOOSE t \in TotalsWithin(hand) : \A x \in TotalsWithin(hand) : x <= t

Hands == UNION {[1..n -> 2..11] : n \in 0..MaxHand}

\* the hands of the games
GameHands == UNION {{games[i].player_hand, games[i].player_second_hand, games[i].dealer_hand} :
                      i \in 1..Len(games)}

HandValueWithin(hand) ==
    TotalsWithin(hand) # {} =>
        calculate_hand_value(hand) <= 21 /\ calculate_hand_value(hand) = BestTotal(hand)

HandValueTable == \A hand \in Hands : HandValueWithin(hand)

\* C22: whenever some assignment of 1 or 11 to the Aces of a hand gives a total
\* of at most 21, calculate_hand_value returns the largest such total.  Taken
\* for every hand of up to MaxHand cards and for every hand of every game.
C22_HandValueWithin ==
    /\ HandValueTable
    /\ \A hand \in GameHands : HandValueWithin(hand)

\* a hand holds two Aces and a ten and is worth 12
C22_Witness ==
    \E i \in 1..Len(games) :
        /\ games[i].player_hand = <<11, 11, 10>>
        /\ calculate_hand_value(games[i].player_hand) = 12

\* C23 as stated: a hand that no assignment of Ace values brings to 21 or less
\* is worth the sum with every Ace counted as 11.
C23_BustAllAcesHigh ==
    \A hand \in GameHands : TotalsWithin(hand) = {} => calculate_hand_value(hand) = SumSeq(hand)

HandValueBust(hand) ==
    TotalsWithin(hand) = {} =>
        calculate_hand_value(hand) = SumSeq(hand) - 10 * Count(hand, 11)

HandValueBustTable == \A hand \in Hands : HandValueBust(hand)

\* C23: a hand that no assignment of Ace values brings to 21 or less is worth
\* the sum with every Ace counted as 1.
C23_BustAllAcesLow ==
    /\ HandValueBustTable
    /\ \A hand \in GameHands : HandValueBust(hand)

\* a hand of two Aces and two tens is bust at 22
C23_Witness ==
    \E i \in 1..Len(games) :
        /\ games[i].player_hand = <<11, 11, 10, 10>>
        /\ games[i].game_over
        /\ calculate_hand_value(games[i].player_hand) = 22


\* ------------------------------------------------ properties of roulette
StakesValid(b) ==
    \A i \in 1..Len(b) : b[i].amt # None /\ b[i].amt > 0 /\ b[i].odds # None /\ b[i].odds >= 0
NumbersValid(b) ==
    \A i \in 1..Len(b) : \A k \in 1..Len(b[i].numbers) :
        LET x == b[i].numbers[k]
        IN  x.digit /\ x.int /\ x.n \in 0..36
Malformed(b) == ~StakesValid(b) \/ ~NumbersValid(b)

RECURSIVE StakeSum(_)
StakeSum(b) == IF b = <<>> THEN 0 ELSE Head(b).amt + StakeSum(Tail(b))

\* the ledger entries a step appends
NewEntries == SubSeq(ledger', Len(ledger) + 1, Len(ledger'))

\* C24: a roulette call whose bet list holds a malformed bet at any position
\* (amount missing or not positive, odds missing or negative, covered numbers
\* not numeric or outside 0..36) returns an error and leaves the balance and
\* the ledger as they were.
C24_MalformedBet ==
    [][\A b \in BetLists :
         (last'.op = "roulette" /\ Malformed(b) /\ RouletteCall(b))
         => /\ last'.status \in {400, 500}
            /\ coins' = coins /\ ledger' = ledger]_vars

\* a list whose second bet covers 37 was refused with the balance at hand
C24_Witness ==
    /\ last.op = "roulette" /\ last.status = 400
    /\ last.msg = "Bet numbers must be between 0 and 36"
    /\ coins = InitCoins /\ ledger = <<>>

\* C25: a roulette call whose balance is below the sum of the amounts fails for
\* insufficient funds and writes nothing; otherwise the whole sum is taken from
\* the balance at once and before the wheel is spun: the call writes one BET
\* entry of minus the sum, made when the balance was already lowered by the
\* sum.
C25_FundsForAllBets ==
    [][\A b \in BetLists :
         (last'.op = "roulette" /\ StakesValid(b) /\ RouletteCall(b))
         => IF coins < StakeSum(b)
            THEN /\ last'.status = 400
                 /\ last'.msg = "Not enough coins for all bets"
                 /\ coins' = coins /\ ledger' = ledger
            ELSE /\ NumbersValid(b) => last'.status = 200
                 /\ last'.status = 200 =>
                       /\ NewEntries # <<>>
                       /\ NewEntries[1].type = "BET"
                       /\ NewEntries[1].amount = -StakeSum(b)
                       /\ NewEntries[1].balance_before = coins - StakeSum(b)
                       /\ \A k \in 2..Len(NewEntries) : NewEntries[k].type # "BET"]_vars

\* two bets of 1 were refused on the balance of 1 that a lost bet had left
C25_Witness ==
    /\ last.op = "roulette" /\ last.status = 400
    /\ last.msg = "Not enough coins for all bets"
    /\ coins = 1 /\ Len(ledger) = 1

Covers(bet, n) == \E k \in 1..Len(bet.numbers) : bet.numbers[k].n = n

RECURSIVE RuleTotalWin(_, _)
RuleTotalWin(b, n) ==
    IF b = <<>> THEN 0
    ELSE (IF Covers(Head(b), n) THEN Head(b).amt + Head(b).odds * Head(b).amt ELSE 0)
         + RuleTotalWin(Tail(b), n)

\* the spin loop on every well-formed list and every number of the wheel
SpinTable ==
    \A b \in {x \in BetLists : ~Malformed(x)}, n \in 0..36 :
        SpinLoop(b, n, 0) = [status |-> 200, err |-> "", total_win |-> RuleTotalWin(b, n)]

\* C26: for a valid bet list and every number drawn, total_win is the sum over
\* the bets that cover the number of amount + odds x amount, a bet that covers
\* no number never wins, total_bet is the sum of the amounts, and the new
\* balance is the old balance - total_bet + total_win.
C26_Payout ==
    [][/\ SpinTable
       /\ \A b \in BetLists :
             (last'.op = "roulette" /\ last'.status = 200 /\ ~Malformed(b) /\ RouletteCall(b))
             => \E n \in 0..36 :
                    /\ coins' = coins - StakeSum(b) + RuleTotalWin(b, n)
                    /\ last'.ret = coins']_vars

\* two bets of 1 have both won on 0: 3 + 2 on a total bet of 2
C26_Witness ==
    /\ last.op = "roulette" /\ last.status = 200
    /\ coins = InitCoins - 2 + 5
    /\ Len(ledger) = 2 /\ ledger[2].type = "WIN" /\ ledger[2].amount = 5

\* C27: a successful roulette settlement writes one BET entry of minus the
\* total bet under a reference_id no earlier entry has and, exactly when the
\* total win is positive, one WIN entry of the total win under the same
\* reference_id.
C27_RouletteEntries ==
    [][\A b \in BetLists :
         (last'.op = "roulette" /\ last'.status = 200 /\ RouletteCall(b))
         => LET total_win == coins' - coins + StakeSum(b)
            IN  /\ SubSeq(ledger', 1, Len(ledger)) = ledger
                /\ Len(NewEntries) = (IF total_win > 0 THEN 2 ELSE 1)
                /\ NewEntries[1].type = "BET" /\ NewEntries[1].game = "ROULETTE"
                /\ NewEntries[1].amount = -StakeSum(b)
                /\ \A k \in 1..Len(ledger) : ledger[k].ref # NewEntries[1].ref
                /\ total_win > 0 =>
                      /\ NewEntries[2].type = "WIN" /\ NewEntries[2].game = "ROULETTE"
                      /\ NewEntries[2].amount = total_win
                      /\ NewEntries[2].ref = NewEntries[1].ref]_vars

\* a winning settlement after a losing one: three entries, two reference_ids
C27_Witness ==
    /\ last.op = "roulette" /\ last.status = 200
    /\ Len(ledger) = 3
    /\ ledger[1].type = "BET" /\ ledger[1].game = "ROULETTE"
    /\ ledger[2].type = "BET" /\ ledger[3].type = "WIN"
    /\ ledger[2].ref = ledger[3].ref /\ ledger[2].ref # ledger[1].ref


\* -------------------------------------------- properties of the slot machine
Fruits == {"CHERRY", "LEMON", "BANANA", "APPLE"}

TriplePays == [f \in Fruits |->
    IF f = "CHERRY" THEN 50 ELSE IF f = "APPLE" THEN 20 ELSE IF f = "BANANA" THEN 15 ELSE 3]
PairPays == [f \in Fruits |->
    IF f = "CHERRY" THEN 40 ELSE IF f = "APPLE" THEN 10 ELSE IF f = "BANANA" THEN 5 ELSE 0]

RulePayout(f0, f1, f2) ==
    IF f0 = f1 /\ f1 = f2 THEN TriplePays[f0] ELSE IF f0 = f1 THEN PairPays[f0] ELSE 0

\* endgame on every triple of symbols, and on the symbols of every triple of
\* stops
PayoutTable ==
    /\ \A f0 \in Fruits, f1 \in Fruits, f2 \in Fruits : endgame(f0, f1, f2) = RulePayout(f0, f1, f2)
    /\ \A segs \in spin_reels :
          /\ \A i \in 0..2 : segment_to_fruit(i, segs[i]) \in Fruits
          /\ calculate_winnings(segs) =
                RulePayout(segment_to_fruit(0, segs[0]), segment_to_fruit(1, segs[1]),
                           segment_to_fruit(2, segs[2]))

PayoutValues == {RulePayout(f[0], f[1], f[2]) : f \in [0..2 -> Fruits]}

\* what a step added to the balance on top of the stake it took
SpinPayout == coins' - coins + 1

\* C28: the payout of a triple of symbols is 50 for three CHERRY, 40 for CHERRY
\* on the first two reels otherwise, 20 for three APPLE, 10 for APPLE on the
\* first two reels otherwise, 15 for three BANANA, 5 for BANANA on the first
\* two reels otherwise, 3 for three LEMON and 0 for every other triple; a spin
\* pays one of these amounts.
C28_SlotPayout ==
    [][/\ PayoutTable
       /\ (last'.op = "spin" /\ last'.status = 200 /\ SpinCall) => SpinPayout \in PayoutValues]_vars

\* a spin has paid 3 for three LEMON
C28_Witness ==
    /\ last.op = "spin" /\ last.status = 200
    /\ ledger # <<>>
    /\ Last(ledger).type = "WIN" /\ Last(ledger).game = "SLOTS" /\ Last(ledger).amount = 3

\* C29: a spin on a balance below 1 fails for insufficient funds and changes
\* neither the balance nor the ledger; a successful spin takes 1 from the
\* balance before the reels are drawn, writes one BET entry of -1 and, exactly
\* when the payout is positive, one WIN entry of the payout under the BET
\* entry's reference_id.
C29_Spin ==
    [][(last'.op = "spin" /\ SpinCall)
          => IF coins < 1
             THEN /\ last'.status = 400
                  /\ last'.msg = "Not enough coins to spin"
                  /\ coins' = coins /\ ledger' = ledger
             ELSE /\ last'.status # 200 => coins' = coins /\ ledger' = ledger
                  /\ last'.status = 200 =>
                        /\ SubSeq(ledger', 1, Len(ledger)) = ledger
                        /\ Len(NewEntries) = (IF SpinPayout > 0 THEN 2 ELSE 1)
                        /\ NewEntries[1].type = "BET" /\ NewEntries[1].game = "SLOTS"
                        /\ NewEntries[1].amount = -1
                        /\ NewEntries[1].balance_before = coins - 1
                        /\ SpinPayout >= 0
                        /\ SpinPayout > 0 =>
                              /\ NewEntries[2].type = "WIN" /\ NewEntries[2].game = "SLOTS"
                              /\ NewEntries[2].amount = SpinPayout
                              /\ NewEntries[2].ref = NewEntries[1].ref]_vars

\* a spin was refused on a balance of 0 left by two lost spins
C29_Witness ==
    /\ last.op = "spin" /\ last.status = 400 /\ last.msg = "Not enough coins to spin"
    /\ coins = 0
    /\ Len(ledger) = 2 /\ ledger[1].game = "SLOTS" /\ ledger[2].game = "SLOTS"

\* C30: the achievement and notification hooks run after a spin's settlement,
\* and a hook that fails neither rolls back nor blocks it: a spin on a balance
\* of 1 or more returns its result with the stake taken and the BET entry
\* written.
C30_HooksAfterSettlement ==
    [][(last'.op = "spin" /\ SpinCall /\ coins >= 1)
          => /\ last'.status = 200
             /\ NewEntries # <<>>
             /\ NewEntries[1].type = "BET" /\ NewEntries[1].amount = -1]_vars


C32_WagersAtomic ==
    /\ coins >= 0
    /\ (AllIdle /\ lock = 0) => coins - LedgerSum(ledger) = InitCoins


\* ------------------------------------------------- properties of the shoe
StartCall(w) == Call(NewRequest("start", w, "", <<>>))

\* the number of cards of value v in a deck
RECURSIVE CardCount(_, _)
CardCount(d, v) ==
    IF d = <<>> THEN 0
    ELSE (IF Head(d)[1] = v THEN Head(d)[2] ELSE 0) + CardCount(Tail(d), v)

\* six decks of 52: 24 cards of each value 2..9 and of the Ace, 96 of value 10
SixDecks == [v \in 2..11 |-> IF v = 10 THEN 96 ELSE 24]

\* a deck of the 312 cards of six decks
IsFreshShoe(d) ==
    /\ DeckLen(d) = 312
    /\ \A v \in 2..11 : CardCount(d, v) = SixDecks[v]

\* C33: a successful start_game with wager w on balance b leaves balance b - w
\* and a new open game with current_wager w, split, double_down and
\* player_stood false, current_hand first, an empty second hand, and two cards
\* each for player and dealer, dealt from the tail of a fresh shoe of 312 cards
\* in the order player, dealer, player, dealer, which leaves 308 cards.
C33_StartDeals ==
    [][\A w \in Wagers :
         (last'.op = "start" /\ last'.status = 200 /\ StartCall(w))
         => LET h == games'[last'.gid]
                shoe == shuffle_deck(rng)
            IN  /\ IsFreshShoe(shoe)
                /\ coins' = coins - w
                /\ last'.gid = Len(games) + 1 /\ Len(games') = Len(games) + 1
                /\ ~h.game_over /\ h.current_wager = w
                /\ ~h.split /\ ~h.double_down /\ ~h.player_stood
                /\ h.current_hand = "first" /\ h.player_second_hand = <<>>
                /\ h.player_hand = <<CardAt(shoe, 1), CardAt(shoe, 3)>>
                /\ h.dealer_hand = <<CardAt(shoe, 2), CardAt(shoe, 4)>>
                /\ h.deck = PopN(shoe, 4)
                /\ DeckLen(h.deck) = 308]_vars

\* a game has been dealt Ace and 5 against 10 and 10, with 308 cards left
C33_Witness ==
    /\ last.op = "start" /\ last.status = 200
    /\ coins = InitCoins - 1
    /\ Len(games) = 1
    /\ games[1].player_hand = <<11, 5>> /\ games[1].dealer_hand = <<10, 10>>
    /\ DeckLen(games[1].deck) = 308 /\ ~games[1].game_over


\* ------------------------------------------------ properties of the stakes
\* what the only game of the account has taken from the balance: the balance
\* is the initial balance, plus the roulette and slot entries, less the stakes,
\* plus what the final hands earned
StakesTaken(g) == InitCoins + LedgerSum(ledger) + Payout(g) - coins

SettledHands(g) == IF g.split THEN 2 ELSE 1

\* C34: over a game from start_game to its settlement, every stake taken from
\* the balance is paired with one settled hand: the stakes taken are
\* current_wager times the number of hands settled.
C34_StakesPaired ==
    (/\ Len(games) = 1 /\ AllIdle
     /\ games[1].game_over /\ games[1].dealer_value # None)
        => StakesTaken(games[1]) = games[1].current_wager * SettledHands(games[1])


\* C35: when start_game closes a game that is open, that game is marked
\* game_over without dealer play and without settlement: its hands, deck,
\* message and every other field stay as they were, its stake is neither
\* refunded nor paid out, and the balance changes by the new wager only.
C35_ForceClose ==
    [][\A w \in Wagers :
         (last'.op = "start" /\ last'.status = 200 /\ StartCall(w) /\ OpenGames(games) # {})
         => /\ coins' = coins - w
            /\ ledger' = ledger
            /\ \A i \in 1..Len(games) :
                  games'[i] = IF games[i].game_over THEN games[i]
                              ELSE [games[i] EXCEPT !.game_over = TRUE]]_vars

\* a split game with two stakes on the table was closed by the next start_game
C35_Witness ==
    /\ last.op = "start" /\ last.status = 200
    /\ Len(games) = 2
    /\ games[1].game_over /\ games[1].split
    /\ games[1].dealer_value = None /\ games[1].message = NoMessage
    /\ Len(games[1].dealer_hand) = 2
    /\ ~games[2].game_over


\* the cards a game holds in its hands
HandCards(g) == Len(g.player_hand) + Len(g.player_second_hand) + Len(g.dealer_hand)

\* deck and hands together are the cards of six decks
CardsConserved(g) ==
    \A v \in 2..11 :
        CardCount(g.deck, v) + Count(g.dealer_hand, v) + Count(g.player_hand, v)
            + Count(g.player_second_hand, v) = SixDecks[v]

\* C36: in every state of a game, the cards of the deck, of the dealer's hand
\* and of both player hands together are the cards of the initial shoe of 312;
\* every step of a game takes the cards it adds to the hands from the tail of
\* the deck, and the deck is never empty when a card is drawn.
C36_CardsConserved ==
    [][\A i \in 1..Len(games') :
         /\ CardsConserved(games'[i])
         /\ DeckLen(games'[i].deck) + HandCards(games'[i]) = 312
         /\ i <= Len(games) =>
               LET drawn == HandCards(games'[i]) - HandCards(games[i])
               IN  /\ drawn >= 0
                   /\ drawn <= DeckLen(games[i].deck)
                   /\ games'[i].deck = PopN(games[i].deck, drawn)]_vars


\* C37: in every state of every game, split is true exactly when the second
\* hand is not empty, current_hand = second only in a split game, and
\* double_down and split are never both true.
C37_FlagsConsistent ==
    \A i \in 1..Len(games) :
        /\ games[i].split <=> games[i].player_second_hand # <<>>
        /\ games[i].current_hand = "second" => games[i].split
        /\ ~(games[i].double_down /\ games[i].split)


\* C38: the player_coins of the game view returned by start_game and by every
\* successful hit, stand, double down and split is the balance of the account
\* at the end of that call, also when spins or roulette settlements came
\* between two blackjack calls.
C38_ViewShowsBalance ==
    (last.op \in {"start", "action"} /\ last.status = 200) => last.ret = coins

====
